---- MODULE Spec2Model ----
(***************************************************************************)
(* Model of the analytics workflow nodes of well-prado/analytics-demo:     *)
(* the natural-language-to-SQL compiler (BusinessContextQueryNode) and the *)
(* nodes that feed its context (DatabaseConfigNode, SchemaDiscoveryNode).  *)
(*                                                                         *)
(* JavaScript strings are TLA+ strings; TLC evaluates Len, SubSeq and \o   *)
(* on them, so substring tests and SQL text are computed character by      *)
(* character as the code computes them.  An optional value (a field that   *)
(* may be undefined) is a sequence of length at most one.                  *)
(***************************************************************************)
EXTENDS Integers, Sequences, FiniteSets, TLC

(***************************************************************************)
(* Bounds of the model.                                                    *)
(***************************************************************************)
\* longest digit run that a question of the model carries after "top "
MaxDigits == 22

\* number of tables the modelled database may hold
MaxTables == 2

\* number of compile calls that may be in flight at once
MaxInflight == 2

\* number of database connections that may be left open
MaxConnections == 2

(***************************************************************************)
(* Optional values.                                                        *)
(***************************************************************************)
None == << >>

Some(v) == << v >>

(***************************************************************************)
(* String primitives of the JavaScript runtime.                            *)
(***************************************************************************)
CharAt(s, i) == SubSeq(s, i, i)

\* String.prototype.includes
Includes(s, k) ==
    \E i \in 1..(Len(s) - Len(k) + 1) : SubSeq(s, i, i + Len(k) - 1) = k

\* String.prototype.indexOf, 1-based; 0 when k does not occur
IndexOf(s, k) ==
    LET hits == {i \in 1..(Len(s) - Len(k) + 1) : SubSeq(s, i, i + Len(k) - 1) = k}
    IN  IF hits = {} THEN 0 ELSE CHOOSE i \in hits : \A j \in hits : i <= j

UpperChars == <<"A","B","C","D","E","F","G","H","I","J","K","L","M",
                "N","O","P","Q","R","S","T","U","V","W","X","Y","Z">>

LowerChars == <<"a","b","c","d","e","f","g","h","i","j","k","l","m",
                "n","o","p","q","r","s","t","u","v","w","x","y","z">>

LowerChar(c) ==
    IF \E n \in 1..26 : UpperChars[n] = c
    THEN LowerChars[CHOOSE n \in 1..26 : UpperChars[n] = c]
    ELSE c

RECURSIVE ToLowerCase(_)
\* String.prototype.toLowerCase
ToLowerCase(s) ==
    IF Len(s) = 0 THEN ""
    ELSE LowerChar(CharAt(s, 1)) \o ToLowerCase(SubSeq(s, 2, Len(s)))

RECURSIVE Join(_, _)
\* Array.prototype.join
Join(parts, sep) ==
    IF Len(parts) = 0 THEN ""
    ELSE IF Len(parts) = 1 THEN parts[1]
    ELSE parts[1] \o sep \o Join(Tail(parts), sep)

\* String.prototype.replace with a string pattern: the first occurrence only
Replace(s, k, r) ==
    LET i == IndexOf(s, k)
    IN  IF i = 0 THEN s
        ELSE SubSeq(s, 1, i - 1) \o r \o SubSeq(s, i + Len(k), Len(s))

Digits == {"0","1","2","3","4","5","6","7","8","9"}

IsDigitAt(s, i) == i >= 1 /\ i <= Len(s) /\ CharAt(s, i) \in Digits

DigitsOnly(s) == Len(s) > 0 /\ \A i \in 1..Len(s) : IsDigitAt(s, i)

\* last index of the maximal digit run that starts at i (the greedy \d+)
RunEnd(s, i) ==
    CHOOSE j \in i..Len(s) :
        /\ \A k \in i..j : IsDigitAt(s, k)
        /\ ~IsDigitAt(s, j + 1)

StartsWithAt(s, i, k) == i >= 1 /\ i + Len(k) - 1 <= Len(s) /\ SubSeq(s, i, i + Len(k) - 1) = k

\* query.match(/<prefix>(\d+)/): the capture group of the leftmost match
MatchPrefixNumber(s, prefix) ==
    LET hits == {i \in 1..Len(s) : StartsWithAt(s, i, prefix) /\ IsDigitAt(s, i + Len(prefix))}
    IN  IF hits = {} THEN None
        ELSE LET i == CHOOSE h \in hits : \A j \in hits : h <= j
                 b == i + Len(prefix)
             IN  Some(SubSeq(s, b, RunEnd(s, b)))

\* query.match(/(\d+) (top|best|worst)/): the first capture group of the leftmost match
MatchNumberSuffix(s) ==
    LET follows(i) == LET j == RunEnd(s, i)
                      IN  \/ StartsWithAt(s, j + 1, " top")
                          \/ StartsWithAt(s, j + 1, " best")
                          \/ StartsWithAt(s, j + 1, " worst")
        hits == {i \in 1..Len(s) : IsDigitAt(s, i) /\ follows(i)}
    IN  IF hits = {} THEN None
        ELSE LET i == CHOOSE h \in hits : \A j \in hits : h <= j
             IN  Some(SubSeq(s, i, RunEnd(s, i)))

(***************************************************************************)
(* JavaScript numbers that parseInt yields from a digit run.  A number is  *)
(* held as its canonical decimal expansion; the expansion is the exact     *)
(* value of the double for runs of at most 15 significant digits, which is *)
(* what the questions of the model carry.                                  *)
(***************************************************************************)
RECURSIVE StripLeadingZeros(_)
StripLeadingZeros(ds) ==
    IF Len(ds) > 1 /\ CharAt(ds, 1) = "0"
    THEN StripLeadingZeros(SubSeq(ds, 2, Len(ds)))
    ELSE ds

RECURSIVE StripTrailingZeros(_)
StripTrailingZeros(ds) ==
    IF Len(ds) > 1 /\ CharAt(ds, Len(ds)) = "0"
    THEN StripTrailingZeros(SubSeq(ds, 1, Len(ds) - 1))
    ELSE ds

\* parseInt on a string of decimal digits
ParseInt(ds) == StripLeadingZeros(ds)

\* mutant of GreaterThanZero: n >= 0
GreaterThanOrEqualZero(n) == TRUE

\* n > 0
GreaterThanZero(n) == n # "0"

\* Number::toString, as string concatenation applies it: plain digits below
\* 1e21, exponent notation from 1e21 on
NumberToString(n) ==
    IF Len(n) <= 21 THEN n
    ELSE LET sig == StripTrailingZeros(n)
             mant == IF Len(sig) = 1 THEN sig
                     ELSE CharAt(sig, 1) \o "." \o SubSeq(sig, 2, Len(sig))
         IN  mant \o "e+" \o ToString(Len(n) - 1)

(***************************************************************************)
(* The extractors of BusinessContextQueryNode.  Each takes the lowercased  *)
(* question, as generateSQLFromNaturalLanguage passes it.                  *)
(***************************************************************************)
\* a JavaScript string is truthy when it is not empty
Truthy(opt) == opt # None /\ opt[1] # ""

\* the department keyword table, in the order Object.entries enumerates it
departmentPatterns ==
    << [dept |-> "sales",      keywords |-> <<"sales", "revenue", "pipeline", "arr", "deals">>],
       [dept |-> "finance",    keywords |-> <<"finance", "financial", "cash", "burn", "runway", "expenses">>],
       [dept |-> "devrel",     keywords |-> <<"devrel", "developer", "github", "community", "twitter", "discord">>],
       [dept |-> "hr",         keywords |-> <<"hr", "human resources", "employee", "hiring", "turnover", "satisfaction">>],
       [dept |-> "events",     keywords |-> <<"events", "conferences", "meetups", "attendees", "signups">>],
       [dept |-> "compliance", keywords |-> <<"compliance", "security", "vulnerabilities", "training", "audit">>] >>

\* keywords.some(keyword => query.includes(keyword))
SomeKeyword(query, keywords) ==
    \E k \in 1..Len(keywords) : Includes(query, keywords[k])

\* mutant of extractDepartment: the last matching department is selected
extractDepartmentLastMatch(query, explicitDept) ==
    IF Truthy(explicitDept) THEN explicitDept
    ELSE LET hits == {n \in 1..Len(departmentPatterns) :
                        SomeKeyword(query, departmentPatterns[n].keywords)}
         IN  IF hits = {} THEN None
             ELSE Some(departmentPatterns[CHOOSE n \in hits : \A m \in hits : m <= n].dept)

\* mutant of extractDepartment: the question is scanned before the override
extractDepartmentInferredFirst(query, explicitDept) ==
    LET hits == {n \in 1..Len(departmentPatterns) :
                    SomeKeyword(query, departmentPatterns[n].keywords)}
    IN  IF hits # {}
        THEN Some(departmentPatterns[CHOOSE n \in hits : \A m \in hits : n <= m].dept)
        ELSE IF Truthy(explicitDept) THEN explicitDept ELSE None

extractDepartment(query, explicitDept) ==
    IF Truthy(explicitDept) THEN explicitDept
    ELSE LET hits == {n \in 1..Len(departmentPatterns) :
                        SomeKeyword(query, departmentPatterns[n].keywords)}
         IN  IF hits = {} THEN None
             ELSE Some(departmentPatterns[CHOOSE n \in hits : \A m \in hits : n <= m].dept)

YearPredicate == "EXTRACT(YEAR FROM m.metric_date) = EXTRACT(YEAR FROM CURRENT_DATE)"

parseDateRange(range) ==
    LET rangeLower == ToLowerCase(range)
    IN  IF rangeLower = "q4"
        THEN [type |-> "q4", sql |-> "EXTRACT(QUARTER FROM m.metric_date) = 4", parameters |-> << >>]
        ELSE [type |-> "custom", sql |-> "", parameters |-> << >>]

\* mutant of implicitDateRange: the month rules are tested before the quarter rules
implicitDateRangeMonthFirst(query) ==
    IF Includes(query, "last month")
    THEN [type |-> "last_month",
          sql |-> "m.metric_date >= DATE_TRUNC('month', CURRENT_DATE - INTERVAL '1 month') AND m.metric_date < DATE_TRUNC('month', CURRENT_DATE)",
          parameters |-> << >>]
    ELSE IF Includes(query, "this month")
    THEN [type |-> "this_month",
          sql |-> "m.metric_date >= DATE_TRUNC('month', CURRENT_DATE)",
          parameters |-> << >>]
    ELSE IF Includes(query, "q4") \/ Includes(query, "fourth quarter")
    THEN [type |-> "q4",
          sql |-> "EXTRACT(QUARTER FROM m.metric_date) = 4 AND " \o YearPredicate,
          parameters |-> << >>]
    ELSE IF Includes(query, "q1") \/ Includes(query, "first quarter")
    THEN [type |-> "q1",
          sql |-> "EXTRACT(QUARTER FROM m.metric_date) = 1 AND " \o YearPredicate,
          parameters |-> << >>]
    ELSE IF Includes(query, "this year")
    THEN [type |-> "this_year", sql |-> YearPredicate, parameters |-> << >>]
    ELSE [type |-> "none", sql |-> "", parameters |-> << >>]

\* the implicit date rules, lines 272-313 of extractDateRange
implicitDateRange(query) ==
    IF Includes(query, "q4") \/ Includes(query, "fourth quarter")
    THEN [type |-> "q4",
          sql |-> "EXTRACT(QUARTER FROM m.metric_date) = 4 AND " \o YearPredicate,
          parameters |-> << >>]
    ELSE IF Includes(query, "q1") \/ Includes(query, "first quarter")
    THEN [type |-> "q1",
          sql |-> "EXTRACT(QUARTER FROM m.metric_date) = 1 AND " \o YearPredicate,
          parameters |-> << >>]
    ELSE IF Includes(query, "last month")
    THEN [type |-> "last_month",
          sql |-> "m.metric_date >= DATE_TRUNC('month', CURRENT_DATE - INTERVAL '1 month') AND m.metric_date < DATE_TRUNC('month', CURRENT_DATE)",
          parameters |-> << >>]
    ELSE IF Includes(query, "this month")
    THEN [type |-> "this_month",
          sql |-> "m.metric_date >= DATE_TRUNC('month', CURRENT_DATE)",
          parameters |-> << >>]
    ELSE IF Includes(query, "this year")
    THEN [type |-> "this_year", sql |-> YearPredicate, parameters |-> << >>]
    ELSE [type |-> "none", sql |-> "", parameters |-> << >>]

extractDateRange(query, explicitRange) ==
    IF Truthy(explicitRange) THEN parseDateRange(explicitRange[1])
    ELSE implicitDateRange(query)

\* mutant of extractAggregation: the average keywords are tested first
extractAggregationAverageFirst(query) ==
    IF Includes(query, "average") \/ Includes(query, "avg")
    THEN [type |-> "avg", function |-> "AVG"]
    ELSE IF Includes(query, "total") \/ Includes(query, "sum")
    THEN [type |-> "sum", function |-> "SUM"]
    ELSE IF Includes(query, "count") \/ Includes(query, "number of")
    THEN [type |-> "count", function |-> "COUNT"]
    ELSE IF Includes(query, "growth") \/ Includes(query, "trend")
    THEN [type |-> "growth", function |-> "SUM"]
    ELSE [type |-> "none", function |-> ""]

extractAggregation(query) ==
    IF Includes(query, "total") \/ Includes(query, "sum")
    THEN [type |-> "sum", function |-> "SUM"]
    ELSE IF Includes(query, "average") \/ Includes(query, "avg")
    THEN [type |-> "avg", function |-> "AVG"]
    ELSE IF Includes(query, "count") \/ Includes(query, "number of")
    THEN [type |-> "count", function |-> "COUNT"]
    ELSE IF Includes(query, "growth") \/ Includes(query, "trend")
    THEN [type |-> "growth", function |-> "SUM"]
    ELSE [type |-> "none", function |-> ""]

\* the metric keyword table, in the order Object.entries enumerates it
metricPatterns ==
    << [keyword |-> "pipeline",     metrics |-> <<"total_pipeline", "channel_partner_pipeline">>],
       [keyword |-> "revenue",      metrics |-> <<"actual_arr", "potential_arr">>],
       [keyword |-> "cash",         metrics |-> <<"cash_available", "cash_burn_rate">>],
       [keyword |-> "satisfaction", metrics |-> <<"employee_satisfaction">>],
       [keyword |-> "turnover",     metrics |-> <<"employee_turnover_rate">>],
       [keyword |-> "followers",    metrics |-> <<"twitter_followers">>],
       [keyword |-> "stars",        metrics |-> <<"github_stars">>] >>

RECURSIVE FoundMetrics(_, _)
\* the loop of extractMetrics from table entry n on
FoundMetrics(query, n) ==
    IF n > Len(metricPatterns) THEN << >>
    ELSE (IF Includes(query, metricPatterns[n].keyword)
          THEN metricPatterns[n].metrics ELSE << >>)
         \o FoundMetrics(query, n + 1)

\* mutant of extractMetrics: the loop stops at the first keyword that occurs
extractMetricsFirstKeyword(query) ==
    LET hits == {n \in 1..Len(metricPatterns) : Includes(query, metricPatterns[n].keyword)}
    IN  IF hits = {} THEN << >>
        ELSE metricPatterns[CHOOSE n \in hits : \A m \in hits : n <= m].metrics

extractMetrics(query) == FoundMetrics(query, 1)

extractComparison(query) ==
    IF Includes(query, "top") \/ Includes(query, "best") \/ Includes(query, "highest")
    THEN [type |-> "top", direction |-> "DESC"]
    ELSE IF Includes(query, "bottom") \/ Includes(query, "worst") \/ Includes(query, "lowest")
    THEN [type |-> "bottom", direction |-> "ASC"]
    ELSE [type |-> "none", direction |-> ""]

\* mutant of extractLimit: the default limit of 10 applies to every question
extractLimitAlwaysDefault(query) ==
    LET m1 == MatchPrefixNumber(query, "top ")
        m2 == MatchPrefixNumber(query, "first ")
        m3 == MatchNumberSuffix(query)
    IN  IF m1 # None THEN ParseInt(m1[1])
        ELSE IF m2 # None THEN ParseInt(m2[1])
        ELSE IF m3 # None THEN ParseInt(m3[1])
        ELSE "10"

extractLimit(query) ==
    LET m1 == MatchPrefixNumber(query, "top ")
        m2 == MatchPrefixNumber(query, "first ")
        m3 == MatchNumberSuffix(query)
    IN  IF m1 # None THEN ParseInt(m1[1])
        ELSE IF m2 # None THEN ParseInt(m2[1])
        ELSE IF m3 # None THEN ParseInt(m3[1])
        ELSE IF Includes(query, "top") \/ Includes(query, "best") THEN "10"
        ELSE "0"

(***************************************************************************)
(* Inputs of the model.                                                    *)
(***************************************************************************)
RECURSIVE Zeros(_)
Zeros(n) == IF n = 0 THEN "" ELSE "0" \o Zeros(n - 1)

\* the n-digit run 10...0
DigitRun(n) == "1" \o Zeros(n - 1)

Questions ==
    { "", "hello", "show me everything", "What happened in Q2?",
      "show me finance numbers", "show me pipeline and arr data",
      "What were our Q4 results?", "total pipeline this year",
      "show me our top 5 departments", "first quarter revenue",
      "average satisfaction last month", "worst cash burn this month",
      "3 best github stars", "number of events", "growth trend of twitter followers",
      "first 20 audit results", "lowest turnover", "top 0 deals", "top 007",
      "stop", "summary account", "best sales Q1 and Q4",
      "second quarter expenses", "Q3 attendees", "third quarter signups",
      "top growth in signups", "lowest average satisfaction", "highest total revenue",
      "best and worst sales",
      "cash for the sales events", "audit of github community",
      "Q4 revenue last month", "last month and this month this year",
      "this month this year", "total and average revenue growth",
      "average number of events", "count growth trend",
      "satisfaction and turnover and cash",
      "top " \o DigitRun(MaxDigits - 1), "top " \o DigitRun(MaxDigits) }

OverrideQuestions ==
    { "hello", "show me finance numbers", "What were our Q4 results?",
      "total pipeline this year" }

ExplicitDepartments ==
    { Some(""), Some("sales"), Some("finance"), Some("x' OR '1'='1") }

\* the date keywords of the implicit rules, and spellings of them
ExplicitDateRanges ==
    { Some("q4"), Some("Q4"), Some("fourth quarter"), Some("q1"), Some("first quarter"),
      Some("last month"), Some("this month"), Some("this year"), Some("last_month") }

\* the date_range values the workflow trigger accepts
TriggerDateRanges ==
    { "q1", "q2", "q3", "q4", "last_month", "this_month", "this_year" }

Input(q, d, r, g) == [query |-> q, department |-> d, date_range |-> r, debug |-> g]

Inputs ==
    {Input(q, None, None, None) : q \in Questions}
    \cup {Input(q, d, None, None) : q \in OverrideQuestions, d \in ExplicitDepartments}
    \cup {Input(q, None, r, None) : q \in OverrideQuestions, r \in ExplicitDateRanges}
    \cup {Input(q, None, Some(r), None) : q \in OverrideQuestions, r \in TriggerDateRanges}
    \cup {Input(q, d, r, None) : q \in OverrideQuestions,
                                 d \in {Some("sales"), Some("finance")},
                                 r \in {Some("q4"), Some("last month")}}
    \cup {Input(q, None, None, Some(g)) : q \in {"hello", "total pipeline this year"},
                                         g \in BOOLEAN}

HistoryInputs ==
    {Input(q, d, r, None) :
        q \in {"hello", "show me finance numbers", "total pipeline this year",
               "average satisfaction last month", "3 best github stars",
               "top " \o DigitRun(MaxDigits)},
        d \in {None, Some("sales")},
        r \in {None, Some("q4")}}

(***************************************************************************)
(* State.                                                                  *)
(*   vars      ctx.vars, the context variables the workflow steps share:   *)
(*             a function from the names that are set to their values      *)
(*   request   the inputs of the handle call that ran last, if any         *)
(*   response  the NanoServiceResponse that call returned                  *)
(*   first     the inputs and the result of the first successful compile   *)
(*             call of the run, and whether a call with other inputs has   *)
(*             run since (recorded by the specification SpecHistory)       *)
(*   inflight  the compile calls suspended at the await of handle (line    *)
(*             110): for each call slot, the call's inputs and its local   *)
(*             generatedQuery, if a call occupies the slot (used by the    *)
(*             specification SpecConcurrent)                               *)
(*   connections  the number of database client connections that a        *)
(*             handle call opened and that are still open after the call   *)
(*             returned (counted by the specification SpecExecute)         *)
(***************************************************************************)
VARIABLES vars, request, response, first, inflight, connections

allVars == << vars, request, response, first, inflight, connections >>

Calls == 1..MaxInflight

NoCalls == [c \in Calls |-> None]

(***************************************************************************)
(* The SQL assembler of BusinessContextQueryNode.                          *)
(***************************************************************************)
\* mutant of InitialParameters: the parameter array is kept across calls
InitialParametersKept ==
    IF response.node = "business-context-query" /\ response.success
    THEN response.data[1].parameters
    ELSE << >>

\* const parameters: any[] = []
InitialParameters == << >>

\* mutant of buildAggregationSelect: growth aggregates like the other kinds
buildAggregationSelectByFunction(aggregation) ==
    "d.name as department, m.metric_name, " \o aggregation.function
        \o "(m.metric_value) as aggregated_value"

buildAggregationSelect(aggregation) ==
    IF aggregation.type = "growth"
    THEN "d.name as department, m.metric_name, " \o "AVG(m.monthly_change_percent) as growth_rate"
    ELSE "d.name as department, m.metric_name, " \o aggregation.function
            \o "(m.metric_value) as aggregated_value"

\* mutant of DepartmentCondition: the department is quoted into the SQL text
DepartmentConditionInline(department, parameters) ==
    "d.code = '" \o department \o "'"

\* "d.code = $" + (parameters.length + 1)
DepartmentCondition(department, parameters) ==
    "d.code = $" \o ToString(Len(parameters) + 1)

\* mutant of DateParameters: the date kind is bound as a parameter
DateParametersBound(dateRange) == << dateRange.type >>

\* the values the date predicate binds: components.dateRange.parameters
DateParameters(dateRange) == dateRange.parameters

\* mutant of MetricPlaceholders: numbering starts at parameters.length
MetricPlaceholdersOffByOne(metrics, parameters) ==
    Join([index \in 1..Len(metrics) |-> "$" \o ToString(Len(parameters) + index - 1)], ", ")

\* components.metrics.map((_, index) => "$" + (parameters.length + index + 1)).join(", ")
\* (index is 0-based in the code and 1-based here)
MetricPlaceholders(metrics, parameters) ==
    Join([index \in 1..Len(metrics) |-> "$" \o ToString(Len(parameters) + index)], ", ")

\* mutant of buildGroupBy: the department name is always a group key
buildGroupByWithDepartment(aggregation, includeDepartment) ==
    " GROUP BY d.name, m.metric_name"

buildGroupBy(aggregation, includeDepartment) ==
    IF includeDepartment THEN " GROUP BY d.name, m.metric_name"
    ELSE " GROUP BY m.metric_name"

\* mutant of buildOrderBy: the direction of the comparison is not used
buildOrderByDescending(comparison, aggregation) ==
    IF comparison.type = "none" THEN " ORDER BY m.metric_date DESC"
    ELSE LET orderColumn == IF aggregation.type # "none"
                            THEN (IF aggregation.type = "growth" THEN "growth_rate"
                                  ELSE "aggregated_value")
                            ELSE "m.metric_value"
         IN  " ORDER BY " \o orderColumn \o " DESC"

buildOrderBy(comparison, aggregation) ==
    IF comparison.type = "none" THEN " ORDER BY m.metric_date DESC"
    ELSE LET orderColumn == IF aggregation.type # "none"
                            THEN (IF aggregation.type = "growth" THEN "growth_rate"
                                  ELSE "aggregated_value")
                            ELSE "m.metric_value"
         IN  " ORDER BY " \o orderColumn \o " " \o comparison.direction

generateExplanation(components, patterns) ==
    LET e1 == "Generated SQL query to " \o
                (IF components.aggregation.type # "none"
                 THEN "calculate " \o components.aggregation.type \o " of "
                 ELSE "retrieve ")
        e2 == e1 \o (IF Len(components.metrics) > 0
                     THEN Join(components.metrics, ", ") \o " metrics"
                     ELSE "metrics")
        e3 == e2 \o (IF components.department # None
                     THEN " for " \o components.department[1] \o " department"
                     ELSE "")
        e4 == e3 \o (IF components.dateRange.type # "none"
                     THEN " filtered by " \o Replace(components.dateRange.type, "_", " ")
                     ELSE "")
        e5 == e4 \o (IF components.comparison.type # "none"
                     THEN " showing " \o components.comparison.type \o " results"
                     ELSE "")
    IN  e5 \o ". Matched patterns: " \o Join(patterns, ", ") \o "."

\* lines 146-157: the parsed components of a question
Components(query, departmentFilter, dateRange) ==
    LET queryLower == ToLowerCase(query)
    IN  [department  |-> extractDepartment(queryLower, departmentFilter),
         dateRange   |-> extractDateRange(queryLower, dateRange),
         aggregation |-> extractAggregation(queryLower),
         metrics     |-> extractMetrics(queryLower),
         comparison  |-> extractComparison(queryLower),
         limit       |-> extractLimit(queryLower)]

\* Components is a function of its arguments alone: its values over the
\* inputs of the model are computed once
ComponentsOf ==
    [k \in {<<i.query, i.department, i.date_range>> : i \in Inputs \cup HistoryInputs}
        |-> Components(k[1], k[2], k[3])]

\* lines 159-237: the SQL text, the parameters and the pattern trail of the
\* parsed components
AssembleQuery(components) ==
    LET aggregated == components.aggregation.type # "none"
        hasDept == components.department # None
        hasDate == components.dateRange.sql # ""
        hasMetrics == Len(components.metrics) > 0
        hasComparison == components.comparison.type # "none"
        hasLimit == GreaterThanZero(components.limit)
        \* parameters, as it stands before and after the department is pushed
        \* and after the date parameters are pushed
        par0 == InitialParameters
        par1 == par0 \o (IF hasDept THEN << components.department[1] >> ELSE << >>)
        par2 == par1 \o (IF hasDate THEN DateParameters(components.dateRange) ELSE << >>)
        whereConditions ==
            (IF hasDept
             THEN << DepartmentCondition(components.department[1], par0) >> ELSE << >>)
            \o (IF hasDate THEN << components.dateRange.sql >> ELSE << >>)
            \o (IF hasMetrics
                THEN << "m.metric_name IN ("
                          \o MetricPlaceholders(components.metrics, par2) \o ")" >>
                ELSE << >>)
        matchedPatterns ==
            << IF ~aggregated THEN "basic_selection"
               ELSE "aggregation_" \o components.aggregation.type >>
            \o (IF hasDept THEN << "department_filter" >> ELSE << >>)
            \o (IF hasDate THEN << "date_filter_" \o components.dateRange.type >> ELSE << >>)
            \o (IF hasMetrics THEN << "metric_filter" >> ELSE << >>)
            \o (IF hasComparison
                THEN << "comparison_" \o components.comparison.type >> ELSE << >>)
            \o (IF hasLimit THEN << "limit_results" >> ELSE << >>)
    IN  [sql |->
            "SELECT "
            \o (IF ~aggregated
                THEN "d.name as department, m.metric_name, m.metric_value, m.metric_date"
                ELSE buildAggregationSelect(components.aggregation))
            \o " FROM metrics m"
            \o " INNER JOIN departments d ON m.department_id = d.id"
            \o (IF Len(whereConditions) > 0
                THEN " WHERE " \o Join(whereConditions, " AND ") ELSE "")
            \o (IF aggregated
                THEN buildGroupBy(components.aggregation, ~hasDept) ELSE "")
            \o buildOrderBy(components.comparison, components.aggregation)
            \o (IF hasLimit THEN " LIMIT " \o NumberToString(components.limit) ELSE ""),
         parameters       |-> par2 \o (IF hasMetrics THEN components.metrics ELSE << >>),
         explanation      |-> generateExplanation(components, matchedPatterns),
         matched_patterns |-> matchedPatterns,
         department_filter |-> components.department,
         date_filter      |-> components.dateRange.type,
         aggregation_type |-> components.aggregation.type]

\* mutant of generateSQLFromNaturalLanguage: the selection tag is pushed
\* after the other tags
generateSQLSelectionTagLast(query, dbSchema, departmentFilter, dateRange, debug) ==
    [AssembleQuery(ComponentsOf[<<query, departmentFilter, dateRange>>])
        EXCEPT !.matched_patterns = Tail(@) \o << Head(@) >>]

\* mutant of generateSQLFromNaturalLanguage: the explanation and the pattern
\* trail are produced in debug mode only
generateSQLExplainingInDebug(query, dbSchema, departmentFilter, dateRange, debug) ==
    IF debug
    THEN AssembleQuery(ComponentsOf[<<query, departmentFilter, dateRange>>])
    ELSE [AssembleQuery(ComponentsOf[<<query, departmentFilter, dateRange>>])
             EXCEPT !.explanation = "", !.matched_patterns = << >>]

generateSQLFromNaturalLanguage(query, dbSchema, departmentFilter, dateRange, debug) ==
    AssembleQuery(ComponentsOf[<<query, departmentFilter, dateRange>>])

(***************************************************************************)
(* Context variables and responses.                                        *)
(***************************************************************************)
\* ctx.vars.<name> is set (and, being an object or a string the nodes store, truthy)
IsSet(v, name) == name \in DOMAIN v

\* ctx.vars.<name> = value
SetVar(v, name, value) ==
    [n \in DOMAIN v \cup {name} |-> IF n = name THEN value ELSE v[n]]

NoVars == [n \in {} |-> None]

\* response.setSuccess(data)
Success(node, data) ==
    [node |-> node, success |-> TRUE, data |-> Some(data), error |-> None]

\* the catch block of handle: response.setError(GlobalError(message), code 500)
Failure(node, message) ==
    [node |-> node, success |-> FALSE, data |-> None,
     error |-> Some([message |-> message, code |-> 500, name |-> node])]

NoResponse == [node |-> "", success |-> FALSE, data |-> None, error |-> None]

(***************************************************************************)
(* DatabaseConfigNode.handle.  The password comes from the environment     *)
(* (process.env.DB_PASSWORD || ""); the other settings take their defaults.*)
(***************************************************************************)
DefaultPort == 5432

BuildConfig(password) ==
    [host |-> "localhost", port |-> DefaultPort, database |-> "analytics_demo",
     user |-> "postgres", password |-> password, ssl |-> FALSE]

\* validateDatabaseConnection: every required field is truthy
RequiredFieldsPresent(config) ==
    /\ config.host # ""
    /\ config.port # 0
    /\ config.database # ""
    /\ config.user # ""
    /\ config.password # ""

DatabaseConfigHandle(password, validate_connection) ==
    LET config == BuildConfig(password)
    IN  /\ request' = Some([node |-> "database-config",
                            validate_connection |-> validate_connection])
        /\ IF config.password = ""
           THEN /\ response' = Failure("database-config",
                     "Database password is required. Please set DB_PASSWORD environment variable.")
                /\ vars' = vars
           ELSE IF validate_connection /\ ~RequiredFieldsPresent(config)
           THEN /\ response' = Failure("database-config",
                     "Database connection validation failed: Database configuration missing required field")
                /\ vars' = vars
           ELSE /\ vars' = SetVar(vars, "database_config", config)
                /\ response' = Success("database-config",
                                       [config EXCEPT !.password = "***CONFIGURED***"])
        /\ first' = first
        /\ inflight' = inflight
        /\ connections' = connections

(***************************************************************************)
(* SchemaDiscoveryNode.handle.  The database is outside the program: a     *)
(* call finds it unreachable, or reads the tables it holds.                *)
(***************************************************************************)
CatalogTable(i) ==
    [table_name |-> IF i = 1 THEN "departments"
                    ELSE IF i = 2 THEN "metrics"
                    ELSE "table_" \o ToString(i),
     table_type |-> "BASE TABLE"]

\* the DatabaseSchema record that discoverDatabaseSchema returns
DiscoveredSchema(schemaName, ntables) ==
    [schema_name |-> schemaName,
     tables |-> [i \in 1..ntables |-> CatalogTable(i)],
     total_tables |-> ntables]

\* mutant of SchemaDiscoveryHandle: the database configuration is not required
SchemaDiscoveryHandleUnchecked(reachable, ntables) ==
    /\ request' = Some([node |-> "schema-discovery"])
    /\ IF ~reachable
       THEN /\ response' = Failure("schema-discovery",
                 "Schema discovery failed: connect ECONNREFUSED")
            /\ vars' = vars
       ELSE LET schema == DiscoveredSchema("public", ntables)
            IN  /\ vars' = SetVar(vars, "database_schema", schema)
                /\ response' = Success("schema-discovery", schema)
    /\ first' = first
    /\ inflight' = inflight
    /\ connections' = connections

\* discoverDatabaseSchema ends its client on the success path (line 193) and
\* in its catch block (line 203), so the call leaves no connection open
SchemaDiscoveryHandle(reachable, ntables) ==
    /\ request' = Some([node |-> "schema-discovery"])
    /\ IF ~IsSet(vars, "database_config")
       THEN /\ response' = Failure("schema-discovery",
                 "Database configuration not found. Please run database-config node first.")
            /\ vars' = vars
       ELSE IF ~reachable
       THEN /\ response' = Failure("schema-discovery",
                 "Schema discovery failed: connect ECONNREFUSED")
            /\ vars' = vars
       ELSE LET schema == DiscoveredSchema("public", ntables)
            IN  /\ vars' = SetVar(vars, "database_schema", schema)
                /\ response' = Success("schema-discovery", schema)
    /\ first' = first
    /\ inflight' = inflight
    /\ connections' = connections

(***************************************************************************)
(* BusinessContextQueryNode.handle, the compile step.                      *)
(***************************************************************************)
SchemaMissingMessage ==
    "Database schema not found. Please run schema-discovery node first."

\* mutant of SchemaMissing: the check is dropped
SchemaMissingNever(v) == FALSE

\* mutant of SchemaMissing: a schema without tables counts as missing
SchemaMissingOrEmpty(v) ==
    \/ ~IsSet(v, "database_schema")
    \/ v["database_schema"].total_tables = 0

\* !ctx.vars?.database_schema
SchemaMissing(v) == ~IsSet(v, "database_schema")

\* mutant of StoreAndReturn: the context is replaced, not extended
StoreAndReturnReplacingVars(generatedQuery) ==
    /\ vars' = SetVar(SetVar(NoVars, "generated_query", generatedQuery.sql),
                      "query_parameters", generatedQuery.parameters)
    /\ response' = Success("business-context-query", generatedQuery)

\* lines 118-123: the generated query is stored in the context and returned
StoreAndReturn(generatedQuery) ==
    /\ vars' = SetVar(SetVar(vars, "generated_query", generatedQuery.sql),
                      "query_parameters", generatedQuery.parameters)
    /\ response' = Success("business-context-query", generatedQuery)

\* the body of handle; the caller states what becomes of the history variable
Handle(inputs) ==
    /\ request' = Some([node |-> "business-context-query", inputs |-> inputs])
    /\ IF SchemaMissing(vars)
       THEN /\ response' = Failure("business-context-query", SchemaMissingMessage)
            /\ vars' = vars
       ELSE StoreAndReturn(generateSQLFromNaturalLanguage(
                inputs.query,
                IF IsSet(vars, "database_schema") THEN Some(vars["database_schema"]) ELSE None,
                inputs.department,
                inputs.date_range,
                inputs.debug # None /\ inputs.debug[1]))

BusinessContextQueryHandle(inputs) ==
    /\ Handle(inputs)
    /\ first' = first
    /\ inflight' = inflight
    /\ connections' = connections

\* the same call, with the first successful result of the run remembered
BusinessContextQueryHandleRecorded(inputs) ==
    /\ Handle(inputs)
    /\ first' = IF first = None
                THEN (IF response'.success
                      THEN Some([inputs |-> inputs, data |-> response'.data[1],
                                 interleaved |-> FALSE])
                      ELSE first)
                ELSE IF inputs # first[1].inputs
                THEN Some([first[1] EXCEPT !.interleaved = TRUE])
                ELSE first
    /\ inflight' = inflight
    /\ connections' = connections

(***************************************************************************)
(* handle as two steps, for calls that overlap.  handle is an async        *)
(* function: it runs from its entry to the await of line 110 without       *)
(* yielding (generateSQLFromNaturalLanguage has no await of its own, so    *)
(* its promise is already resolved), and resumes after it in a later turn  *)
(* of the event loop, by which time other calls may have begun or          *)
(* resumed.  The calls share the context.                                  *)
(***************************************************************************)
\* the call slots that hold a suspended call
InFlight == {c \in Calls : inflight[c] # None}

\* mutant of ResumedQuery: generatedQuery is shared by the calls in flight
ResumedQueryShared(c) ==
    inflight[CHOOSE d \in InFlight : \A e \in InFlight : e <= d][1].generatedQuery

\* const generatedQuery, a local of the call that resumes
ResumedQuery(c) == inflight[c][1].generatedQuery

\* lines 97-116: the schema check and the generation, up to the await; a
\* call that throws is caught and returns without suspending.  alone
\* records that no other call was in flight while this one was.
BeginCall(c, inputs) ==
    /\ inflight[c] = None
    /\ IF SchemaMissing(vars)
       THEN /\ request' = Some([node |-> "business-context-query", inputs |-> inputs,
                                alone |-> InFlight = {}])
            /\ response' = Failure("business-context-query", SchemaMissingMessage)
            /\ inflight' = inflight
       ELSE /\ inflight' =
                 [d \in Calls |->
                    IF d = c
                    THEN Some([inputs |-> inputs,
                               generatedQuery |-> generateSQLFromNaturalLanguage(
                                   inputs.query, Some(vars["database_schema"]),
                                   inputs.department, inputs.date_range,
                                   inputs.debug # None /\ inputs.debug[1]),
                               alone |-> InFlight = {}])
                    ELSE IF inflight[d] = None THEN None
                    ELSE Some([inflight[d][1] EXCEPT !.alone = FALSE])]
            /\ request' = request
            /\ response' = response
    /\ vars' = vars
    /\ first' = first
    /\ connections' = connections

\* lines 118-133: the call resumes, stores its query in the context and
\* returns; the first result of a call that ran alone is remembered
FinishCall(c) ==
    /\ inflight[c] # None
    /\ request' = Some([node |-> "business-context-query",
                        inputs |-> inflight[c][1].inputs,
                        alone |-> inflight[c][1].alone])
    /\ StoreAndReturn(ResumedQuery(c))
    /\ inflight' = [inflight EXCEPT ![c] = None]
    /\ connections' = connections
    /\ first' = IF first = None /\ inflight[c][1].alone
                THEN Some([inputs |-> inflight[c][1].inputs,
                           data |-> response'.data[1],
                           interleaved |-> FALSE])
                ELSE first

(***************************************************************************)
(* PostgresAnalyticsQuery.handle, the execution step.  The workflow passes *)
(* ctx.vars.generated_query and ctx.vars.query_parameters as its query and *)
(* parameters and does not set set_var.  The database is outside the       *)
(* program: a call finds it unreachable, has its query rejected, or gets   *)
(* rows back.                                                              *)
(***************************************************************************)
ExecuteOutcomes == {"connect_failed", "query_failed", "rows"}

\* the query input of the step: "${ctx.vars.generated_query}"
ExecuteQuery(v) == IF IsSet(v, "generated_query") THEN Some(v["generated_query"]) ELSE None

\* lines 92-158: connect (108), query (109-111), end (112), respond; an
\* exception of connect or query is caught at line 143, past client.end().
\* Without a generated query there is no statement the database accepts.
PostgresAnalyticsHandle(outcome, total) ==
    /\ request' = Some([node |-> "postgres-analytics", query |-> ExecuteQuery(vars)])
    /\ IF outcome = "connect_failed"
       THEN /\ response' = Failure("postgres-analytics", "connect ECONNREFUSED")
            /\ connections' = connections
       ELSE IF outcome = "query_failed" \/ ExecuteQuery(vars) = None
       THEN /\ connections < MaxConnections
            /\ response' = Failure("postgres-analytics", "query failed")
            /\ connections' = connections + 1
       ELSE /\ response' = Success("postgres-analytics",
                                   [total |-> total, data |-> [i \in 1..total |-> i]])
            /\ connections' = connections
    /\ vars' = vars
    /\ first' = first
    /\ inflight' = inflight

Passwords == {"", "secret"}

(***************************************************************************)
(* Specifications.                                                         *)
(***************************************************************************)
Init ==
    /\ vars = NoVars
    /\ request = None
    /\ response = NoResponse
    /\ first = None
    /\ inflight = NoCalls
    /\ connections = 0

ConfigStep ==
    \E password \in Passwords, validate \in BOOLEAN :
        DatabaseConfigHandle(password, validate)

DiscoveryStep ==
    \E reachable \in BOOLEAN, ntables \in 0..MaxTables :
        SchemaDiscoveryHandle(reachable, ntables)

CompileStep == \E inputs \in Inputs : BusinessContextQueryHandle(inputs)

Next == ConfigStep \/ DiscoveryStep \/ CompileStep

Spec == Init /\ [][Next]_allVars

\* the state after database-config and schema-discovery have succeeded
InitHistory ==
    \E ntables \in 0..MaxTables :
        LET config == BuildConfig("secret")
            schema == DiscoveredSchema("public", ntables)
        IN  /\ vars = SetVar(SetVar(NoVars, "database_config", config),
                             "database_schema", schema)
            /\ request = Some([node |-> "schema-discovery"])
            /\ response = Success("schema-discovery", schema)
            /\ first = None
            /\ inflight = NoCalls
            /\ connections = 0

NextHistory == \E inputs \in HistoryInputs : BusinessContextQueryHandleRecorded(inputs)

SpecHistory == InitHistory /\ [][NextHistory]_allVars

\* the inputs of the calls that overlap
ConcurrentInputs ==
    { Input("hello", None, None, None),
      Input("3 best github stars", None, None, None),
      Input("show me finance numbers", Some("sales"), Some("q4"), None) }

\* the context after database-config alone, or after schema-discovery too
InitConcurrent ==
    \/ InitHistory
    \/ /\ vars = SetVar(NoVars, "database_config", BuildConfig("secret"))
       /\ request = Some([node |-> "database-config", validate_connection |-> FALSE])
       /\ response = Success("database-config",
                             [BuildConfig("secret") EXCEPT !.password = "***CONFIGURED***"])
       /\ first = None
       /\ inflight = NoCalls
       /\ connections = 0

BeginStep == \E c \in Calls, inputs \in ConcurrentInputs : BeginCall(c, inputs)

FinishStep == \E c \in Calls : FinishCall(c)

NextConcurrent == BeginStep \/ FinishStep

SpecConcurrent == InitConcurrent /\ [][NextConcurrent]_allVars

\* number of rows a query of the model may return
MaxRows == 1

\* the questions compiled before an execution
ExecuteInputs ==
    { Input("hello", None, None, None),
      Input("total pipeline this year", None, None, None),
      Input("3 best github stars", None, None, None) }

ExecuteCompileStep == \E inputs \in ExecuteInputs : BusinessContextQueryHandle(inputs)

ExecuteStep ==
    \E outcome \in ExecuteOutcomes, total \in 0..MaxRows :
        PostgresAnalyticsHandle(outcome, total)

NextExecute == ExecuteCompileStep \/ ExecuteStep

\* the steps process-query and execute-query, run after database-config and
\* schema-discovery, or after database-config alone
SpecExecute == InitConcurrent /\ [][NextExecute]_allVars

(***************************************************************************)
(* Properties.                                                             *)
(***************************************************************************)
\* the last call was a compile call that succeeded
CompileOk == response.node = "business-context-query" /\ response.success

\* the last call was a compile call that failed
CompileFailed == response.node = "business-context-query" /\ ~response.success

\* result and inputs of the last compile call
Data == response.data[1]

Req == request[1].inputs

\* this step is a call of the compile step
CompileCalled == request' # None /\ request'[1].node = "business-context-query"

\* positions of the placeholders of a SQL text: a $ followed by a digit
PlaceholderPositions(sql) ==
    {i \in 1..Len(sql) : CharAt(sql, i) = "$" /\ IsDigitAt(sql, i + 1)}

\* the number a placeholder at position i carries, as text
PlaceholderNumber(sql, i) == SubSeq(sql, i + 1, RunEnd(sql, i + 1))

\* C1: in every compiled query the number of $n placeholders in sql equals
\* the length of parameters, and the k-th placeholder in order of appearance
\* is $k.
C1_PlaceholderParity ==
    CompileOk =>
        LET pos == PlaceholderPositions(Data.sql)
        IN  /\ Cardinality(pos) = Len(Data.parameters)
            /\ \A i \in pos :
                  PlaceholderNumber(Data.sql, i)
                      = ToString(Cardinality({j \in pos : j <= i}))

C1_Witness ==
    /\ CompileOk
    /\ Len(Data.parameters) >= 3
    /\ Data.date_filter # "none"
    /\ Cardinality(PlaceholderPositions(Data.sql)) >= 3

\* the strings a caller supplies with a request, and the values bound for it
UserStrings ==
    {Req.query, ToLowerCase(Req.query)}
    \cup (IF Req.department # None THEN {Req.department[1]} ELSE {})
    \cup (IF Req.date_range # None THEN {Req.date_range[1]} ELSE {})
    \cup {Data.parameters[k] : k \in 1..Len(Data.parameters)}

\* two requests that differ only in the value of a non-empty explicit department
DifferOnlyInDepartment(a, b) ==
    /\ Truthy(a.department) /\ Truthy(b.department)
    /\ a.department # b.department
    /\ a.query = b.query /\ a.date_range = b.date_range /\ a.debug = b.debug

\* C2: no string the caller supplied (question, explicit department, explicit
\* date range) and no bound metric name occurs in sql, and two successive
\* compile calls that differ only in the value of a non-empty explicit
\* department yield the same sql, pattern trail, date filter and aggregation.
C2_InjectionSafety ==
    /\ [](CompileOk => \A u \in UserStrings : u # "" => ~Includes(Data.sql, u))
    /\ [][(CompileOk /\ CompileOk' /\ DifferOnlyInDepartment(Req, Req')) =>
            /\ Data'.sql = Data.sql
            /\ Data'.matched_patterns = Data.matched_patterns
            /\ Data'.date_filter = Data.date_filter
            /\ Data'.aggregation_type = Data.aggregation_type
            /\ Data'.department_filter = Req'.department
            /\ Data'.parameters[1] = Req'.department[1]
            /\ Tail(Data'.parameters) = Tail(Data.parameters)]_allVars

C2_Witness ==
    /\ CompileOk
    /\ Req.department = Some("x' OR '1'='1")
    /\ Data.parameters[1] = "x' OR '1'='1"
    /\ Includes(Data.sql, "d.code = $1")

\* the text that follows the LIMIT keyword of a SQL text
LimitText(sql) ==
    LET i == IndexOf(sql, " LIMIT ")
    IN  SubSeq(sql, i + Len(" LIMIT "), Len(sql))

\* C3: whenever sql has a LIMIT clause its value is a digits-only literal; a
\* captured number that is not rendered so is dropped and no LIMIT is emitted.
C3_LimitDigitsOnly ==
    CompileOk => (Includes(Data.sql, " LIMIT ") => DigitsOnly(LimitText(Data.sql)))

\* C4: a compile call whose inputs are those of the first call of the run
\* returns the sql and the parameters the first call returned, whatever calls
\* ran in between.
C4_Deterministic ==
    (CompileOk /\ first # None /\ Req = first[1].inputs) =>
        /\ Data.sql = first[1].data.sql
        /\ Data.parameters = first[1].data.parameters

C4_Witness ==
    /\ CompileOk
    /\ first # None
    /\ first[1].interleaved
    /\ Req = first[1].inputs
    /\ Len(Data.parameters) >= 2

\* the placeholders $from .. $from+n-1, as the IN list writes them
PlaceholderList(from, n) ==
    Join([k \in 1..n |-> "$" \o ToString(from + k - 1)], ", ")

\* C5: the WHERE conjuncts are the department equality, the date predicate and
\* the metric membership test, in that order; parameters is the department
\* value (if any) followed by the metric names in extraction order, the i-th
\* parameter under placeholder $i; the date predicate binds nothing.
C5_WhereOrderAndParameters ==
    CompileOk =>
        LET sql == Data.sql
            lower == ToLowerCase(Req.query)
            dept == Data.department_filter
            date == extractDateRange(lower, Req.date_range).sql
            metrics == extractMetrics(lower)
            nd == IF dept = None THEN 0 ELSE 1
            iD == IndexOf(sql, "d.code = ")
            iT == IF date = "" THEN 0 ELSE IndexOf(sql, date)
            iM == IndexOf(sql, "m.metric_name IN (")
        IN  /\ Data.parameters = dept \o metrics
            /\ (dept # None) = (iD > 0)
            /\ (date # "") = (iT > 0)
            /\ (Len(metrics) > 0) = (iM > 0)
            /\ (iD > 0 /\ iT > 0) => iD < iT
            /\ (iT > 0 /\ iM > 0) => iT < iM
            /\ (iD > 0 /\ iM > 0) => iD < iM
            /\ iD > 0 => StartsWithAt(sql, iD, "d.code = $1")
                         /\ ~IsDigitAt(sql, iD + Len("d.code = $1"))
            /\ iM > 0 => StartsWithAt(sql, iM, "m.metric_name IN ("
                              \o PlaceholderList(nd + 1, Len(metrics)) \o ")")

C5_Witness ==
    /\ CompileOk
    /\ Data.department_filter # None
    /\ Data.date_filter = "last_month"
    /\ Includes(Data.sql, "DATE_TRUNC")
    /\ Includes(Data.sql, "m.metric_name IN ($2)")
    /\ Len(Data.parameters) = 2

\* C6: a compile call made while database_schema is not set returns an error
\* whose message names the missing schema and the schema-discovery step,
\* returns no data, and leaves every context variable as it was.
C6_MissingSchemaError ==
    [][(CompileCalled /\ ~IsSet(vars, "database_schema")) =>
          /\ ~response'.success
          /\ response'.data = None
          /\ response'.error # None
          /\ Includes(response'.error[1].message, "schema not found")
          /\ Includes(response'.error[1].message, "schema-discovery")
          /\ vars' = vars
          /\ ~IsSet(vars', "generated_query")
          /\ ~IsSet(vars', "query_parameters")]_allVars

C6_Witness ==
    /\ CompileFailed
    /\ response.error[1].message = SchemaMissingMessage
    /\ IsSet(vars, "database_config")
    /\ ~IsSet(vars, "database_schema")
    /\ ~IsSet(vars, "generated_query")

\* C7: a compile call made while database_schema is set succeeds, for every
\* question and every combination of overrides, and a failed compile call
\* always carries the missing-schema message.
C7_OnlyMissingSchemaFails ==
    /\ [][(CompileCalled /\ IsSet(vars, "database_schema")) =>
            /\ response'.success
            /\ response'.data # None
            /\ response'.error = None]_allVars
    /\ [](CompileFailed => response.error[1].message = SchemaMissingMessage)

C7_Witness ==
    /\ CompileOk
    /\ vars["database_schema"].total_tables = 0
    /\ Req.query = ""

\* every keyword and number pattern the extractors look for
RecognizedKeywords ==
    { "sales", "revenue", "pipeline", "arr", "deals",
      "finance", "financial", "cash", "burn", "runway", "expenses",
      "devrel", "developer", "github", "community", "twitter", "discord",
      "hr", "human resources", "employee", "hiring", "turnover", "satisfaction",
      "events", "conferences", "meetups", "attendees", "signups",
      "compliance", "security", "vulnerabilities", "training", "audit",
      "q4", "fourth quarter", "q1", "first quarter",
      "last month", "this month", "this year",
      "total", "sum", "average", "avg", "count", "number of", "growth", "trend",
      "followers", "stars",
      "top", "best", "highest", "bottom", "worst", "lowest" }

NoRecognizedKeyword(query) ==
    LET lower == ToLowerCase(query)
    IN  /\ \A k \in RecognizedKeywords : ~Includes(lower, k)
        /\ MatchPrefixNumber(lower, "first ") = None

EndsWith(s, k) == Len(s) >= Len(k) /\ SubSeq(s, Len(s) - Len(k) + 1, Len(s)) = k

\* C8: a question without any recognized keyword, compiled without overrides,
\* yields the default query: no WHERE, GROUP BY or LIMIT clause, ordered by
\* record date descending, no parameters, aggregation none, date filter none,
\* and a non-empty explanation.
C8_DefaultQuery ==
    (CompileOk /\ Req.department = None /\ Req.date_range = None
               /\ NoRecognizedKeyword(Req.query)) =>
        /\ ~Includes(Data.sql, "WHERE")
        /\ ~Includes(Data.sql, "GROUP BY")
        /\ ~Includes(Data.sql, "LIMIT")
        /\ EndsWith(Data.sql, " ORDER BY m.metric_date DESC")
        /\ Data.parameters = << >>
        /\ Data.aggregation_type = "none"
        /\ Data.date_filter = "none"
        /\ Data.department_filter = None
        /\ Data.explanation # ""

C8_Witness ==
    /\ CompileOk
    /\ Req = Input("hello", None, None, None)
    /\ Data.matched_patterns = << "basic_selection" >>

\* C9: when a non-empty explicit department is supplied, department_filter
\* and the first bound parameter are that value and sql filters on it,
\* whatever department keywords the question contains.
C9_ExplicitDepartmentWins ==
    (CompileOk /\ Truthy(Req.department)) =>
        /\ Data.department_filter = Req.department
        /\ Len(Data.parameters) >= 1
        /\ Data.parameters[1] = Req.department[1]
        /\ Includes(Data.sql, "d.code = $1")

C9_Witness ==
    /\ CompileOk
    /\ Req.query = "show me finance numbers"
    /\ Req.department = Some("sales")
    /\ Data.department_filter = Some("sales")

\* C10: an explicit date range that is a keyword of the implicit rules yields
\* the date kind and the date predicate that a question containing the keyword
\* yields without an override.
C10_ExplicitDateAsImplicit ==
    (CompileOk /\ Truthy(Req.date_range)
               /\ implicitDateRange(ToLowerCase(Req.date_range[1])).type # "none") =>
        LET rule == implicitDateRange(ToLowerCase(Req.date_range[1]))
        IN  /\ Data.date_filter = rule.type
            /\ Includes(Data.sql, rule.sql)

\* the text of sql from position i on, up to the first later clause keyword
ClauseFrom(sql, i) ==
    LET rest == SubSeq(sql, i, Len(sql))
        stops == {n \in {IndexOf(rest, " GROUP BY "), IndexOf(rest, " ORDER BY "),
                         IndexOf(rest, " LIMIT ")} : n > 0}
    IN  IF stops = {} THEN rest
        ELSE SubSeq(rest, 1, (CHOOSE n \in stops : \A m \in stops : n <= m) - 1)

\* the conditions of the WHERE clause of a SQL text; empty when it has none
WhereClause(sql) ==
    IF IndexOf(sql, " WHERE ") = 0 THEN ""
    ELSE ClauseFrom(sql, IndexOf(sql, " WHERE ") + Len(" WHERE "))

\* the columns of the GROUP BY clause of a SQL text; empty when it has none
GroupByClause(sql) ==
    IF IndexOf(sql, " GROUP BY ") = 0 THEN ""
    ELSE ClauseFrom(sql, IndexOf(sql, " GROUP BY ") + Len(" GROUP BY "))

\* the column and direction of the ORDER BY clause of a SQL text
OrderByClause(sql) ==
    IF IndexOf(sql, " ORDER BY ") = 0 THEN ""
    ELSE ClauseFrom(sql, IndexOf(sql, " ORDER BY ") + Len(" ORDER BY "))

\* C11: compiling with an explicit date range that the workflow trigger
\* accepts yields that value as date_filter and a date predicate in the WHERE
\* clause.
C11_TriggerDateRangeFilters ==
    (CompileOk /\ Req.date_range # None /\ Req.date_range[1] \in TriggerDateRanges) =>
        /\ Data.date_filter = Req.date_range[1]
        /\ Includes(WhereClause(Data.sql), "m.metric_date")

OrdinalQuarter == << "first quarter", "second quarter", "third quarter", "fourth quarter" >>

\* the lowercased question names quarter n, by keyword or by ordinal phrase
QuarterMentioned(lower, n) ==
    Includes(lower, "q" \o ToString(n)) \/ Includes(lower, OrdinalQuarter[n])

\* C12: without an explicit date range, a question that names quarter N (and
\* no other quarter) yields date_filter qN and a WHERE clause with the
\* quarter-extraction predicate equal to N and the current-year predicate, and
\* binds no parameter for it.
C12_QuarterKeywords ==
    (CompileOk /\ Req.date_range = None) =>
        \A n \in 1..4 :
            (/\ QuarterMentioned(ToLowerCase(Req.query), n)
             /\ \A m \in 1..4 \ {n} : ~QuarterMentioned(ToLowerCase(Req.query), m)) =>
                /\ Data.date_filter = "q" \o ToString(n)
                /\ Includes(WhereClause(Data.sql),
                            "EXTRACT(QUARTER FROM m.metric_date) = " \o ToString(n))
                /\ Includes(WhereClause(Data.sql), YearPredicate)
                /\ Data.parameters
                     = Data.department_filter \o extractMetrics(ToLowerCase(Req.query))

\* the two context variables the compile step writes for the execution step
StoredNames == {"generated_query", "query_parameters"}

\* C13 (as stated): a compile call leaves every context variable that existed
\* before the call with the value it had.
C13_NoSideEffects ==
    [][CompileCalled =>
        \A n \in DOMAIN vars : n \in DOMAIN vars' /\ vars'[n] = vars[n]]_allVars

\* C13 (amended): a compile call leaves the schema, the database
\* configuration and every context variable other than generated_query and
\* query_parameters as they were and adds no other variable; a successful
\* call sets these two to the sql and the parameters it returns, a failed
\* call changes no context variable at all.
C13_FrameEffect ==
    [][CompileCalled =>
        /\ \A n \in DOMAIN vars \ StoredNames :
              n \in DOMAIN vars' /\ vars'[n] = vars[n]
        /\ DOMAIN vars' \subseteq DOMAIN vars \cup StoredNames
        /\ CompileOk' => /\ vars'["generated_query"] = Data'.sql
                         /\ vars'["query_parameters"] = Data'.parameters
        /\ CompileFailed' => vars' = vars]_allVars

C13_Witness ==
    /\ CompileOk
    /\ IsSet(vars, "database_config")
    /\ IsSet(vars, "database_schema")
    /\ vars["generated_query"] = Data.sql
    /\ vars["query_parameters"] = Data.parameters
    /\ Len(Data.parameters) >= 2

\* C14: whatever compile calls overlap, a call returns the result that a call
\* with the same inputs returned when it ran with no other call in flight,
\* and a call fails only where the schema is missing.
C14_ConcurrentCallsIndependent ==
    /\ (CompileOk /\ first # None /\ Req = first[1].inputs) => Data = first[1].data
    /\ CompileFailed => /\ SchemaMissing(vars)
                        /\ response.error[1].message = SchemaMissingMessage

C14_Witness ==
    /\ CompileOk
    /\ first # None
    /\ Req = first[1].inputs
    /\ ~request[1].alone
    /\ \E c \in InFlight : inflight[c][1].inputs # Req

\* two requests that differ in the debug flag alone
DifferOnlyInDebug(a, b) ==
    /\ a.debug # b.debug
    /\ a.query = b.query /\ a.department = b.department /\ a.date_range = b.date_range

\* C15: two successive compile calls whose inputs differ only in the debug
\* flag (true, false or omitted) return identical results, and every
\* successful result carries a non-empty explanation and a pattern trail.
C15_DebugIrrelevant ==
    /\ [](CompileOk => /\ {"explanation", "matched_patterns"} \subseteq DOMAIN Data
                       /\ Data.explanation # ""
                       /\ Data.matched_patterns \in Seq(STRING))
    /\ [][(CompileOk /\ CompileOk' /\ DifferOnlyInDebug(Req, Req')) =>
            Data' = Data]_allVars

C15_Witness ==
    /\ CompileOk
    /\ Req.debug = Some(FALSE)
    /\ Data.explanation # ""
    /\ Len(Data.matched_patterns) >= 2

\* the limit a compiled query applies: the value of its LIMIT clause, 0 if
\* it has none
AppliedLimit(sql) == IF Includes(sql, " LIMIT ") THEN LimitText(sql) ELSE "0"

\* the limit as C16 states it: the first numeric pattern that matches, else
\* 10 if a comparison was detected, else 0
StatedLimit(query) ==
    LET m1 == MatchPrefixNumber(query, "top ")
        m2 == MatchPrefixNumber(query, "first ")
        m3 == MatchNumberSuffix(query)
    IN  IF m1 # None THEN ParseInt(m1[1])
        ELSE IF m2 # None THEN ParseInt(m2[1])
        ELSE IF m3 # None THEN ParseInt(m3[1])
        ELSE IF extractComparison(query).type # "none" THEN "10"
        ELSE "0"

\* C16: the limit of a compiled query is the number captured by the first
\* matching numeric pattern; when none matches it is 10 if a comparison
\* keyword (kind top or bottom) was detected and 0, no LIMIT, otherwise.
C16_DefaultLimitOnComparison ==
    CompileOk => AppliedLimit(Data.sql) = StatedLimit(ToLowerCase(Req.query))

\* C17: sql has a GROUP BY clause exactly when the aggregation kind is not
\* none; it groups by department name and metric name when the result has no
\* department filter, and by metric name alone when it has one (explicit or
\* inferred).
C17_GroupByShape ==
    CompileOk =>
        /\ Includes(Data.sql, " GROUP BY ") <=> Data.aggregation_type # "none"
        /\ Data.aggregation_type # "none" =>
              GroupByClause(Data.sql) = IF Data.department_filter = None
                                        THEN "d.name, m.metric_name"
                                        ELSE "m.metric_name"

C17_Witness ==
    /\ CompileOk
    /\ Data.aggregation_type = "sum"
    /\ Req.department = None
    /\ Data.department_filter # None
    /\ GroupByClause(Data.sql) = "m.metric_name"

RECURSIVE Split(_, _)
\* the parts of a text between the occurrences of a separator
Split(s, sep) ==
    IF IndexOf(s, sep) = 0 THEN << s >>
    ELSE << SubSeq(s, 1, IndexOf(s, sep) - 1) >>
            \o Split(SubSeq(s, IndexOf(s, sep) + Len(sep), Len(s)), sep)

\* the items of the SELECT list of a SQL text
SelectItems(sql) ==
    Split(SubSeq(sql, Len("SELECT ") + 1, IndexOf(sql, " FROM ") - 1), ", ")

\* the columns the SELECT list takes as they are, without an aggregate function
PlainColumns(sql) ==
    {Split(SelectItems(sql)[k], " as ")[1] :
        k \in {j \in 1..Len(SelectItems(sql)) : ~Includes(SelectItems(sql)[j], "(")}}

\* the aliases of the aggregate expressions of the SELECT list
AggregateAliases(sql) ==
    {Split(SelectItems(sql)[k], " as ")[2] :
        k \in {j \in 1..Len(SelectItems(sql)) : Includes(SelectItems(sql)[j], "(")}}

\* the columns of the GROUP BY clause of a SQL text
GroupByColumns(sql) ==
    IF GroupByClause(sql) = "" THEN {}
    ELSE {Split(GroupByClause(sql), ", ")[k] : k \in 1..Len(Split(GroupByClause(sql), ", "))}

\* C18: in every aggregated query each column that the SELECT list takes
\* without an aggregate function (department name, metric name) is a GROUP BY
\* column, with or without a department filter.
C18_SelectedColumnsGrouped ==
    (CompileOk /\ Data.aggregation_type # "none") =>
        PlainColumns(Data.sql) \subseteq GroupByColumns(Data.sql)

\* a keyword of the descending kind, or of the ascending kind, occurs in a question
TopKeyword(lower) ==
    Includes(lower, "top") \/ Includes(lower, "best") \/ Includes(lower, "highest")

BottomKeyword(lower) ==
    Includes(lower, "bottom") \/ Includes(lower, "worst") \/ Includes(lower, "lowest")

\* the column a comparison orders by, for an aggregation kind
ComparisonColumn(aggregation_type) ==
    IF aggregation_type = "growth" THEN "growth_rate"
    ELSE IF aggregation_type \in {"sum", "avg", "count"} THEN "aggregated_value"
    ELSE "m.metric_value"

\* C19: sql always has an ORDER BY clause: record date descending when the
\* question holds no comparison keyword; otherwise the growth column for
\* growth aggregation, the aggregated-value column for sum, avg and count,
\* the raw metric value for unaggregated results, descending for
\* top/best/highest and ascending for bottom/worst/lowest (a question with
\* keywords of both kinds is ordered descending).
C19_OrderByShape ==
    CompileOk =>
        /\ Includes(Data.sql, " ORDER BY ")
        /\ OrderByClause(Data.sql) =
              IF TopKeyword(ToLowerCase(Req.query))
              THEN ComparisonColumn(Data.aggregation_type) \o " DESC"
              ELSE IF BottomKeyword(ToLowerCase(Req.query))
              THEN ComparisonColumn(Data.aggregation_type) \o " ASC"
              ELSE "m.metric_date DESC"

C19_Witness ==
    /\ CompileOk
    /\ Data.aggregation_type = "avg"
    /\ BottomKeyword(ToLowerCase(Req.query))
    /\ OrderByClause(Data.sql) = "aggregated_value ASC"

\* the column of the ORDER BY clause of a SQL text, without its direction
OrderByColumn(sql) == Split(OrderByClause(sql), " ")[1]

\* C20: in every aggregated query the ORDER BY column is a GROUP BY column or
\* the alias of the aggregate expression of the SELECT list, with or without
\* a comparison.
C20_OrderColumnGrouped ==
    (CompileOk /\ Data.aggregation_type # "none") =>
        OrderByColumn(Data.sql) \in GroupByColumns(Data.sql) \cup AggregateAliases(Data.sql)

\* the SELECT list of a SQL text
SelectList(sql) == SubSeq(sql, Len("SELECT ") + 1, IndexOf(sql, " FROM ") - 1)

\* C21: the SELECT list is department name, metric name, metric value and
\* record date when the aggregation kind is none; otherwise department name,
\* metric name and one aggregate expression: SUM, AVG or COUNT over the metric
\* value for sum, avg and count, AVG over the monthly percentage change for
\* growth.
C21_SelectList ==
    CompileOk =>
        /\ SubSeq(Data.sql, 1, Len("SELECT ")) = "SELECT "
        /\ SelectList(Data.sql) =
              "d.name as department, m.metric_name, " \o
              (IF Data.aggregation_type = "none" THEN "m.metric_value, m.metric_date"
               ELSE IF Data.aggregation_type = "sum" THEN "SUM(m.metric_value) as aggregated_value"
               ELSE IF Data.aggregation_type = "avg" THEN "AVG(m.metric_value) as aggregated_value"
               ELSE IF Data.aggregation_type = "count" THEN "COUNT(m.metric_value) as aggregated_value"
               ELSE IF Data.aggregation_type = "growth" THEN "AVG(m.monthly_change_percent) as growth_rate"
               ELSE "")

C21_Witness ==
    /\ CompileOk
    /\ Data.aggregation_type = "growth"
    /\ Includes(SelectList(Data.sql), "AVG(m.monthly_change_percent) as growth_rate")

\* the keywords that open the clauses of a query, in the order of the grammar
\* (FROM with its table, as the date predicates hold EXTRACT(... FROM ...))
ClauseKeywords ==
    << "SELECT ", " FROM metrics ", " INNER JOIN ", " WHERE ", " GROUP BY ", " ORDER BY ", " LIMIT " >>

\* the positions at which a text occurs in another
Occurrences(s, k) ==
    {i \in 1..(Len(s) - Len(k) + 1) : SubSeq(s, i, i + Len(k) - 1) = k}

\* the members of a sequence of strings
Members(seq) == {seq[k] : k \in 1..Len(seq)}

\* C22: the clauses of sql appear once each and in the order SELECT, FROM,
\* JOIN, WHERE, GROUP BY, ORDER BY, LIMIT; sql has a LIMIT clause exactly
\* when the limit extracted from the question is greater than zero, and the
\* clause is then the end of sql and renders the extracted number.
C22_ClauseOrderAndLimit ==
    CompileOk =>
        /\ \A i \in 1..Len(ClauseKeywords) :
              Cardinality(Occurrences(Data.sql, ClauseKeywords[i])) <= 1
        /\ \A i \in 1..3 : Includes(Data.sql, ClauseKeywords[i])
        /\ IndexOf(Data.sql, "SELECT ") = 1
        /\ \A i, j \in 1..Len(ClauseKeywords) :
              (i < j /\ Includes(Data.sql, ClauseKeywords[i])
                     /\ Includes(Data.sql, ClauseKeywords[j])) =>
                  IndexOf(Data.sql, ClauseKeywords[i]) < IndexOf(Data.sql, ClauseKeywords[j])
        /\ Includes(Data.sql, " LIMIT ") <=> extractLimit(ToLowerCase(Req.query)) # "0"
        /\ Includes(Data.sql, " LIMIT ") =>
              EndsWith(Data.sql, " LIMIT " \o NumberToString(extractLimit(ToLowerCase(Req.query))))

C22_Witness ==
    /\ CompileOk
    /\ Req.query = "show me our top 5 departments"
    /\ EndsWith(Data.sql, " ORDER BY m.metric_value DESC LIMIT 5")
    /\ {"limit_results", "comparison_top"} \subseteq Members(Data.matched_patterns)

\* the pattern trail that the clauses of the returned sql and the comparison
\* keywords of the question call for
TrailOfResult ==
    << IF Data.aggregation_type = "none" THEN "basic_selection"
       ELSE "aggregation_" \o Data.aggregation_type >>
    \o (IF Includes(WhereClause(Data.sql), "d.code = $")
        THEN << "department_filter" >> ELSE << >>)
    \o (IF Includes(WhereClause(Data.sql), "m.metric_date")
        THEN << "date_filter_" \o Data.date_filter >> ELSE << >>)
    \o (IF Includes(WhereClause(Data.sql), "m.metric_name IN (")
        THEN << "metric_filter" >> ELSE << >>)
    \o (IF TopKeyword(ToLowerCase(Req.query)) THEN << "comparison_top" >>
        ELSE IF BottomKeyword(ToLowerCase(Req.query)) THEN << "comparison_bottom" >>
        ELSE << >>)
    \o (IF Includes(Data.sql, " LIMIT ") THEN << "limit_results" >> ELSE << >>)

\* the extraction result of the request that ran last, and of the next one
Extraction == ComponentsOf[<< Req.query, Req.department, Req.date_range >>]

\* C23: matched_patterns holds, in assembly order, basic_selection or
\* aggregation_<kind>, then department_filter iff sql has the department
\* equality, date_filter_<kind> iff sql has a date predicate, metric_filter
\* iff sql has the metric IN list, comparison_<type> iff a comparison was
\* detected and limit_results iff sql has a LIMIT clause; two successive
\* calls with the same extraction result return the same trail.
C23_PatternTrail ==
    /\ [](CompileOk => Data.matched_patterns = TrailOfResult)
    /\ [][(CompileOk /\ CompileOk' /\ Req # Req' /\ Extraction = Extraction') =>
            Data'.matched_patterns = Data.matched_patterns]_allVars

C23_Witness ==
    /\ CompileOk
    /\ Data.matched_patterns = << "aggregation_sum", "department_filter",
                                  "date_filter_this_year", "metric_filter" >>

\* C24: date_filter differs from none and the explanation says the query is
\* filtered by a date range exactly when the WHERE clause of sql holds a
\* date predicate and matched_patterns holds the date_filter_<kind> tag of
\* that kind.
C24_DateFilterConsistent ==
    CompileOk =>
        /\ Data.date_filter # "none" <=> Includes(Data.explanation, " filtered by ")
        /\ Data.date_filter # "none" <=>
              /\ Includes(WhereClause(Data.sql), "m.metric_date")
              /\ ("date_filter_" \o Data.date_filter) \in Members(Data.matched_patterns)

\* the enumeration order of the departments
DepartmentOrder == << "sales", "finance", "devrel", "hr", "events", "compliance" >>

\* a synonym of the n-th department occurs in the lowercased question
DepartmentMentioned(lower, n) == SomeKeyword(lower, departmentPatterns[n].keywords)

\* C25: without an explicit department, the department of the result is the
\* first of sales, finance, devrel, hr, events, compliance that has a synonym
\* occurring in the lowercased question, and it is bound as $1 of the
\* department condition; when no synonym occurs the result has no department
\* and sql no department condition.
C25_FirstDepartmentWins ==
    (CompileOk /\ Req.department = None) =>
        /\ [n \in 1..Len(departmentPatterns) |-> departmentPatterns[n].dept] = DepartmentOrder
        /\ \A n \in 1..Len(DepartmentOrder) :
              (/\ DepartmentMentioned(ToLowerCase(Req.query), n)
               /\ \A m \in 1..(n - 1) : ~DepartmentMentioned(ToLowerCase(Req.query), m)) =>
                  /\ Data.department_filter = Some(DepartmentOrder[n])
                  /\ Includes(WhereClause(Data.sql), "d.code = $1")
                  /\ Data.parameters[1] = DepartmentOrder[n]
        /\ (\A n \in 1..Len(DepartmentOrder) : ~DepartmentMentioned(ToLowerCase(Req.query), n)) =>
              /\ Data.department_filter = None
              /\ ~Includes(Data.sql, "d.code")
              /\ "department_filter" \notin Members(Data.matched_patterns)

C25_Witness ==
    /\ CompileOk
    /\ Req.department = None
    /\ Cardinality({n \in 1..Len(DepartmentOrder) :
                        DepartmentMentioned(ToLowerCase(Req.query), n)}) >= 3
    /\ Data.department_filter = Some("sales")

\* the keywords of the implicit date rules that occur in a lowercased question
QuarterKeyword(lower) ==
    \/ Includes(lower, "q4") \/ Includes(lower, "fourth quarter")
    \/ Includes(lower, "q1") \/ Includes(lower, "first quarter")

DateKeywordKinds(lower) ==
    {k \in {"q4", "q1", "last_month", "this_month", "this_year"} :
        \/ k = "q4" /\ (Includes(lower, "q4") \/ Includes(lower, "fourth quarter"))
        \/ k = "q1" /\ (Includes(lower, "q1") \/ Includes(lower, "first quarter"))
        \/ k = "last_month" /\ Includes(lower, "last month")
        \/ k = "this_month" /\ Includes(lower, "this month")
        \/ k = "this_year" /\ Includes(lower, "this year")}

\* C26: without an explicit date range, the date kind of the result is that
\* of the rule of highest priority among the rules whose keywords occur in
\* the question: a quarter rule before last month before this month before
\* this year, with a date predicate in the WHERE clause; when no keyword
\* occurs the date kind is none and sql has no date predicate.
C26_DatePriority ==
    (CompileOk /\ Req.date_range = None) =>
        /\ Data.date_filter \in DateKeywordKinds(ToLowerCase(Req.query)) \cup {"none"}
        /\ Data.date_filter = "none" <=> DateKeywordKinds(ToLowerCase(Req.query)) = {}
        /\ Data.date_filter = "none" <=> ~Includes(Data.sql, "m.metric_date >= ")
                                          /\ ~Includes(Data.sql, "FROM m.metric_date")
        /\ QuarterKeyword(ToLowerCase(Req.query)) => Data.date_filter \in {"q4", "q1"}
        /\ (~QuarterKeyword(ToLowerCase(Req.query))
              /\ Includes(ToLowerCase(Req.query), "last month")) =>
                 Data.date_filter = "last_month"
        /\ (~QuarterKeyword(ToLowerCase(Req.query))
              /\ ~Includes(ToLowerCase(Req.query), "last month")
              /\ Includes(ToLowerCase(Req.query), "this month")) =>
                 Data.date_filter = "this_month"

C26_Witness ==
    /\ CompileOk
    /\ Req.date_range = None
    /\ {"q4", "last_month"} \subseteq DateKeywordKinds(ToLowerCase(Req.query))
    /\ Data.date_filter = "q4"

\* the aggregation rules in priority order: a kind and its keywords
AggregationRules ==
    << [kind |-> "sum",    keywords |-> << "total", "sum" >>],
       [kind |-> "avg",    keywords |-> << "average", "avg" >>],
       [kind |-> "count",  keywords |-> << "count", "number of" >>],
       [kind |-> "growth", keywords |-> << "growth", "trend" >>] >>

\* the rules that have a keyword occurring in a lowercased question
AggregationHits(lower) ==
    {n \in 1..Len(AggregationRules) : SomeKeyword(lower, AggregationRules[n].keywords)}

\* C27: the aggregation kind is one of sum, avg, count, growth, none: the
\* kind of the first of the rules sum (total, sum), avg (average, avg), count
\* (count, number of), growth (growth, trend) that has a keyword occurring in
\* the question, and none when no rule has one.
C27_AggregationPriority ==
    CompileOk =>
        /\ Data.aggregation_type \in {"sum", "avg", "count", "growth", "none"}
        /\ Data.aggregation_type = "none" <=> AggregationHits(ToLowerCase(Req.query)) = {}
        /\ \A n \in AggregationHits(ToLowerCase(Req.query)) :
              (\A m \in AggregationHits(ToLowerCase(Req.query)) : n <= m) =>
                  Data.aggregation_type = AggregationRules[n].kind

C27_Witness ==
    /\ CompileOk
    /\ Cardinality(AggregationHits(ToLowerCase(Req.query))) >= 3
    /\ Data.aggregation_type = "sum"

\* the entries of the metric keyword table whose keyword occurs in a question
MetricHits(lower) ==
    {n \in 1..Len(metricPatterns) : Includes(lower, metricPatterns[n].keyword)}

RECURSIVE MetricCount(_, _)
\* the number of metric names that the hits among the first n entries contribute
MetricCount(lower, n) ==
    IF n = 0 THEN 0
    ELSE MetricCount(lower, n - 1)
         + (IF n \in MetricHits(lower) THEN Len(metricPatterns[n].metrics) ELSE 0)

\* the parameters bound after the department: the extracted metric names
BoundMetrics == SubSeq(Data.parameters, Len(Data.department_filter) + 1, Len(Data.parameters))

\* the placeholder list of the metric condition of a SQL text
MetricInList(sql) ==
    Split(Split(sql, "m.metric_name IN (")[2], ")")[1]

\* C28: the metric names bound by a compiled query are the metric lists of
\* the keywords that occur in the question, each list whole and the lists in
\* keyword-table order; sql has a metric IN list with one placeholder per
\* name when there are any, and no metric condition when there are none.
C28_MetricList ==
    CompileOk =>
        /\ Len(BoundMetrics) = MetricCount(ToLowerCase(Req.query), Len(metricPatterns))
        /\ \A n \in MetricHits(ToLowerCase(Req.query)) :
              SubSeq(BoundMetrics, MetricCount(ToLowerCase(Req.query), n - 1) + 1,
                                   MetricCount(ToLowerCase(Req.query), n))
                  = metricPatterns[n].metrics
        /\ Includes(Data.sql, "m.metric_name IN") <=> Len(BoundMetrics) > 0
        /\ Len(BoundMetrics) > 0 =>
              /\ Includes(WhereClause(Data.sql), "m.metric_name IN (")
              /\ Cardinality(PlaceholderPositions(MetricInList(Data.sql))) = Len(BoundMetrics)
              /\ Len(Split(MetricInList(Data.sql), ", ")) = Len(BoundMetrics)

C28_Witness ==
    /\ CompileOk
    /\ Req.query = "satisfaction and turnover and cash"
    /\ BoundMetrics = << "cash_available", "cash_burn_rate",
                         "employee_satisfaction", "employee_turnover_rate" >>
    /\ Includes(Data.sql, "m.metric_name IN ($2, $3, $4, $5)")

\* this step is a call of the named node
StepOf(node) == request' # None /\ request'[1].node = node

\* C29: schema-discovery fails unless database_config is set and the compile
\* step fails unless database_schema is set; database_schema is set only
\* where database_config is, generated_query only where both are; a step
\* that fails leaves the context variables as they were.
C29_StepsInDependencyOrder ==
    /\ [](IsSet(vars, "database_schema") => IsSet(vars, "database_config"))
    /\ [](IsSet(vars, "generated_query") =>
            /\ IsSet(vars, "database_schema")
            /\ IsSet(vars, "database_config")
            /\ IsSet(vars, "query_parameters"))
    /\ [][(StepOf("schema-discovery") /\ ~IsSet(vars, "database_config")) =>
            ~response'.success]_allVars
    /\ [][(StepOf("business-context-query") /\ ~IsSet(vars, "database_schema")) =>
            ~response'.success]_allVars
    /\ [][~response'.success => vars' = vars]_allVars

C29_Witness ==
    /\ ~response.success
    /\ response.node = "schema-discovery"
    /\ IsSet(vars, "generated_query")
    /\ IsSet(vars, "database_schema")
    /\ IsSet(vars, "database_config")

\* C30: every database client connection that the execution step opens is
\* ended before its handle returns, on the success path and on the error
\* paths: no connection is open between calls.
C30_ConnectionsEnded == connections = 0

====
